---------------------------- MODULE Spec2Model ----------------------------
(***************************************************************************)
(* Model of SwarmCoordinator                                               *)
(* (src/ai-models/swarm-intelligence/swarm_coordinator.py).                *)
(*                                                                         *)
(* Numbers.  The program computes in float64.  Here every real is an       *)
(* integer count of 1/SCALE units (fixed point).  Products are exact,      *)
(* quotients are truncated toward zero and the Euclidean norm is rounded   *)
(* up to the grid, so a modelled quotient by a norm is the real quotient   *)
(* rounded toward zero.  Comparisons of a norm with a grid value r read    *)
(* exactly as in the reals for <= and > (ceil(sqrt s) <= r iff s <= r*r).   *)
(* A 2D numpy vector is a pair <<x, y>>.                                   *)
(***************************************************************************)
EXTENDS Integers, Sequences, FiniteSets, TLC

VARIABLES
    agents,         \* self.agents: insertion-ordered dict, a sequence of Agent records
    nodes,          \* self.communication_graph: node set
    edges,          \* self.communication_graph: function {id1, id2} -> weight
    missions,       \* self.missions: function mission id -> Mission record
    params,         \* self.coordination_params
    metrics,        \* self.metrics
    assignments,    \* the caller's assignment dict (result of the last planning call),
                    \*   an insertion-ordered sequence of [id, target]
    last,           \* the last operation called and its arguments
    nops,           \* number of operations called so far
    consensus       \* the activation of implement_consensus_algorithm: where it
                    \*   stands and its local variables

vars == <<agents, nodes, edges, missions, params, metrics, assignments, last, nops,
          consensus>>

---------------------------------------------------------------------------
(* Fixed-point arithmetic                                                  *)

SCALE == 100

MaxOps == 5

Abs(x) == IF x < 0 THEN -x ELSE x

Min2(x, y) == IF x <= y THEN x ELSE y

Max2(x, y) == IF x >= y THEN x ELSE y

\* float division, truncated toward zero on the grid
Quot(a, b) == IF a >= 0 THEN a \div b ELSE -((-a) \div b)

\* x * y and x / y of two fixed-point numbers
FMul(x, y) == Quot(x * y, SCALE)

FDiv(x, y) == Quot(x * SCALE, y)

RECURSIVE SqrtSearch(_, _, _)
SqrtSearch(n, lo, hi) ==
    IF lo >= hi THEN lo
    ELSE LET mid == (lo + hi) \div 2
         IN  IF mid * mid >= n THEN SqrtSearch(n, lo, mid)
                               ELSE SqrtSearch(n, mid + 1, hi)

\* least r with r * r >= n
CeilSqrt(n) == SqrtSearch(n, 0, 46340)

VAdd(u, v) == <<u[1] + v[1], u[2] + v[2]>>

VSub(u, v) == <<u[1] - v[1], u[2] - v[2]>>

\* np.linalg.norm
Norm(v) == CeilSqrt(v[1] * v[1] + v[2] * v[2])

RECURSIVE Gcd(_, _)
Gcd(x, y) == IF y = 0 THEN x ELSE Gcd(y, x % y)

\* np.arctan2(y, x): the angle, named by the reduced direction <<y, x>>;
\* arctan2(0, 0) = 0.0 = arctan2(0, 1)
Arctan2(y, x) ==
    IF x = 0 /\ y = 0 THEN <<0, 1>>
    ELSE LET g == Gcd(Abs(y), Abs(x)) IN <<y \div g, x \div g>>

\* np.mean(list_of_vectors, axis=0) of a non-empty list
RECURSIVE VSum(_)
VSum(ps) == IF ps = <<>> THEN <<0, 0>> ELSE VAdd(Head(ps), VSum(Tail(ps)))

Mean(ps) == <<Quot(VSum(ps)[1], Len(ps)), Quot(VSum(ps)[2], Len(ps))>>

---------------------------------------------------------------------------
(* The registry: an insertion-ordered dict keyed by agent id               *)

Keys(reg) == {reg[i].id : i \in 1..Len(reg)}

IndexOf(reg, id) == CHOOSE i \in 1..Len(reg) : reg[i].id = id

Get(reg, id) == reg[IndexOf(reg, id)]

\* self.agents[agent.id] = agent: a new key is appended, an existing key keeps
\* its place and gets the new value
DictSet(reg, agent) ==
    IF agent.id \in Keys(reg)
    THEN [reg EXCEPT ![IndexOf(reg, agent.id)] = agent]
    ELSE Append(reg, agent)

\* del self.agents[agent_id]
DictDel(reg, id) ==
    LET k == IndexOf(reg, id)
    IN  [i \in 1..(Len(reg) - 1) |-> IF i < k THEN reg[i] ELSE reg[i + 1]]

---------------------------------------------------------------------------
(* Inputs                                                                  *)

Pt(x, y) == <<x * SCALE, y * SCALE>>

MkAgent(id, pos, vel, range, speed, energy, role, status, equipment) ==
    [id |-> id, position |-> pos, velocity |-> vel, heading |-> <<0, 1>>,
     role |-> role, status |-> status, communication_range |-> range * SCALE,
     max_speed |-> speed * SCALE, energy |-> energy * SCALE, equipment |-> equipment]

\* Agent values handed to add_agent.  A string (role, objective, equipment
\* tag) is the sequence of its characters
AgentInputs ==
    { MkAgent("a", Pt(1, 1),   <<0, 0>>, 30, 10, 100, <<"s">>, "active", << <<"r">> >>),
      MkAgent("a", Pt(130, 0), Pt(3, 4), 50,  5,  80, <<"s">>, "active", <<>>),
      MkAgent("b", Pt(-1, 1),  <<0, 0>>, 30, 10, 100, <<"c">>, "active", << <<"r">> >>),
      MkAgent("b", Pt(1, 31),  <<0, 0>>, 50, 10,  90, <<"c">>, "disabled", << <<"w">> >>),
      MkAgent("c", Pt(-1, 36), <<0, 0>>, 50, 10,  70, <<"s">>, "active", << <<"w">> >>) }

AgentIds == {"a", "b", "c"}

---------------------------------------------------------------------------
(* add_agent, remove_agent, update_communication_graph                     *)

Pair(x, y) == {x, y}

Touch(op, arg) == /\ last' = [op |-> op, arg |-> arg]
                  /\ nops' = nops + 1
                  /\ UNCHANGED consensus

AddAgent(agent) ==
    /\ nops < MaxOps
    /\ agents' = DictSet(agents, agent)
    /\ nodes' = nodes \cup {agent.id}
    /\ Touch("add_agent", [agent |-> agent, dup |-> agent.id \in Keys(agents)])
    /\ UNCHANGED <<edges, missions, params, metrics, assignments>>

\* remove_node that leaves the incident edges in place
RemoveNodeKeepEdges(es, id) == es

\* nx.Graph.remove_node: the node and its incident edges
RemoveNode(es, id) == [e \in {f \in DOMAIN es : id \notin f} |-> es[e]]

RemoveAgent(id) ==
    /\ nops < MaxOps
    /\ IF id \in Keys(agents)
       THEN /\ agents' = DictDel(agents, id)
            /\ nodes' = nodes \ {id}
            /\ edges' = RemoveNode(edges, id)
       ELSE UNCHANGED <<agents, nodes, edges>>
    /\ Touch("remove_agent", [id |-> id, known |-> id \in Keys(agents)])
    /\ UNCHANGED <<missions, params, metrics, assignments>>

\* a rebuild that does not clear the edges first
ClearEdgesKeep(es) == es

\* nx.Graph.clear_edges
ClearEdges(es) == [e \in {} |-> 0]

\* the range test taken against the larger of the two ranges
InRangeMax(agent1, agent2) ==
    Norm(VSub(agent1.position, agent2.position))
        <= Max2(agent1.communication_range, agent2.communication_range)

\* the condition under which update_communication_graph adds the edge
InRange(agent1, agent2) ==
    LET distance == Norm(VSub(agent1.position, agent2.position))
        max_range == Min2(agent1.communication_range, agent2.communication_range)
    IN  distance <= max_range

\* weight = 1.0 / (distance + 0.1)
EdgeWeight(agent1, agent2) ==
    FDiv(SCALE, Norm(VSub(agent1.position, agent2.position)) + SCALE \div 10)

\* the pairs (i, j), i < j, of agents_list that get an edge
LinkedPairs(reg) ==
    {p \in (1..Len(reg)) \X (1..Len(reg)) : p[1] < p[2] /\ InRange(reg[p[1]], reg[p[2]])}

BuildEdges(es, reg) ==
    LET new == {Pair(reg[p[1]].id, reg[p[2]].id) : p \in LinkedPairs(reg)}
        w(e) == LET p == CHOOSE q \in LinkedPairs(reg) : Pair(reg[q[1]].id, reg[q[2]].id) = e
                IN  EdgeWeight(reg[p[1]], reg[p[2]])
    IN  [e \in DOMAIN es \cup new |-> IF e \in new THEN w(e) ELSE es[e]]

\* self.communication_graph.neighbors(id)
Neighbors(id) == {x \in nodes : Pair(id, x) \in DOMAIN edges}

UpdateCommunicationGraph ==
    /\ nops < MaxOps
    /\ edges' = BuildEdges(ClearEdges(edges), agents)
    \* add_edge creates a missing endpoint
    /\ nodes' = nodes \cup UNION DOMAIN edges'
    /\ Touch("update_communication_graph", [before |-> DOMAIN edges])
    /\ UNCHANGED <<agents, missions, params, metrics, assignments>>

---------------------------------------------------------------------------
(* FormationController                                                     *)

\* np.cos / np.sin of an angle given in whole degrees, truncated to the grid.
\* CosTable[d + 1] is cos(d degrees) in thousandths, d = 0..90
CosTable ==
    << 1000, 999, 999, 998, 997, 996, 994, 992, 990, 987, 984, 981, 978,
       974, 970, 965, 961, 956, 951, 945, 939, 933, 927, 920, 913, 906,
       898, 891, 882, 874, 866, 857, 848, 838, 829, 819, 809, 798, 788,
       777, 766, 754, 743, 731, 719, 707, 694, 681, 669, 656, 642, 629,
       615, 601, 587, 573, 559, 544, 529, 515, 500, 484, 469, 453, 438,
       422, 406, 390, 374, 358, 342, 325, 309, 292, 275, 258, 241, 224,
       207, 190, 173, 156, 139, 121, 104, 87, 69, 52, 34, 17, 0 >>

CosQ1(d) == (CosTable[d + 1] * SCALE) \div 1000

FCos(deg) ==
    LET d == deg % 360
    IN  CASE d <= 90  -> CosQ1(d)
          [] d <= 180 -> -CosQ1(180 - d)
          [] d <= 270 -> -CosQ1(d - 180)
          [] OTHER    -> CosQ1(360 - d)

FSin(deg) == FCos(deg + 270)

\* np.array([x, y]) * scalar, and scalar-by-scalar products, on the grid
VScale(k, v) == <<FMul(k, v[1]), FMul(k, v[2])>>

UnitVec(deg) == <<FCos(deg), FSin(deg)>>

LineFormation(center, num_agents, spacing, heading) ==
    LET start_offset == Quot(-(num_agents - 1) * spacing, 2)
        perp_heading == heading + 90
    IN  [k \in 1..num_agents |->
            LET offset == start_offset + (k - 1) * spacing
            IN  VAdd(center, <<FMul(offset, FCos(perp_heading)),
                               FMul(offset, FSin(perp_heading))>>)]

WedgeFormation(center, num_agents, spacing, heading) ==
    <<center>> \o
    [i \in 1..(num_agents - 1) |->
        LET side == IF i % 2 = 1 THEN 1 ELSE -1
            rank == (i + 1) \div 2
            x_offset == FMul(-rank * spacing, FCos(heading))
            y_offset == FMul(FMul(side * rank * spacing, (7 * SCALE) \div 10),
                             FSin(heading + 90))
        IN  VAdd(center, <<x_offset, y_offset>>)]

DiamondFormation(center, num_agents, spacing, heading) ==
    IF num_agents < 4
    THEN LineFormation(center, num_agents, spacing, heading)
    ELSE <<center,
           VAdd(center, VScale(spacing, UnitVec(heading))),
           VAdd(center, VScale(spacing, UnitVec(heading + 90))),
           VAdd(center, VScale(spacing, UnitVec(heading + 270)))>> \o
         [j \in 1..(num_agents - 4) |->
            LET angle == heading + ((j - 1) * 360) \div Max2(1, num_agents - 4)
            IN  VAdd(center, VScale(FMul(spacing, (15 * SCALE) \div 10), UnitVec(angle)))]

\* 2 * np.pi on the grid
TwoPi == (6283 * SCALE) \div 1000

CircleFormation(center, num_agents, spacing, heading) ==
    LET radius == FDiv(spacing * num_agents, TwoPi)
    IN  [k \in 1..num_agents |->
            LET angle == heading + ((k - 1) * 360) \div num_agents
            IN  VAdd(center, VScale(radius, UnitVec(angle)))]

EchelonFormation(center, num_agents, spacing, heading) ==
    [k \in 1..num_agents |->
        LET i == k - 1
            x_offset == FMul(FMul(-i * spacing, (7 * SCALE) \div 10), FCos(heading))
            y_offset == FMul(FMul(-i * spacing, (7 * SCALE) \div 10), FSin(heading + 45))
        IN  VAdd(center, <<x_offset, y_offset>>)]

ColumnFormation(center, num_agents, spacing, heading) ==
    [k \in 1..num_agents |->
        LET offset == -(k - 1) * spacing
        IN  VAdd(center, VScale(offset, UnitVec(heading)))]

BoxFormation(center, num_agents, spacing, heading) ==
    LET side_length == CeilSqrt(num_agents)
    IN  [k \in 1..num_agents |->
            LET i == k - 1
                row == i \div side_length
                col == i % side_length
                x_offset == Quot((2 * col - side_length) * spacing, 2)
                y_offset == Quot((2 * row - side_length) * spacing, 2)
                rotated_x == FMul(x_offset, FCos(heading)) - FMul(y_offset, FSin(heading))
                rotated_y == FMul(x_offset, FSin(heading)) + FMul(y_offset, FCos(heading))
            IN  VAdd(center, <<rotated_x, rotated_y>>)]

FormationTypes == {"line", "wedge", "diamond", "circle", "echelon", "column", "box"}

\* an unknown formation type that falls back to 'column'
CalculateFormationPositionsColumn(formation_type, center, num_agents, spacing, heading) ==
    LET ft == IF formation_type \notin FormationTypes THEN "column" ELSE formation_type
    IN  CASE ft = "line"    -> LineFormation(center, num_agents, spacing, heading)
          [] ft = "wedge"   -> WedgeFormation(center, num_agents, spacing, heading)
          [] ft = "diamond" -> DiamondFormation(center, num_agents, spacing, heading)
          [] ft = "circle"  -> CircleFormation(center, num_agents, spacing, heading)
          [] ft = "echelon" -> EchelonFormation(center, num_agents, spacing, heading)
          [] ft = "column"  -> ColumnFormation(center, num_agents, spacing, heading)
          [] ft = "box"     -> BoxFormation(center, num_agents, spacing, heading)

CalculateFormationPositions(formation_type, center, num_agents, spacing, heading) ==
    LET ft == IF formation_type \notin FormationTypes THEN "line" ELSE formation_type
    IN  CASE ft = "line"    -> LineFormation(center, num_agents, spacing, heading)
          [] ft = "wedge"   -> WedgeFormation(center, num_agents, spacing, heading)
          [] ft = "diamond" -> DiamondFormation(center, num_agents, spacing, heading)
          [] ft = "circle"  -> CircleFormation(center, num_agents, spacing, heading)
          [] ft = "echelon" -> EchelonFormation(center, num_agents, spacing, heading)
          [] ft = "column"  -> ColumnFormation(center, num_agents, spacing, heading)
          [] ft = "box"     -> BoxFormation(center, num_agents, spacing, heading)

MaxCount == 5

\* arguments of calculate_formation_positions; "star" and "" are no formation
\* types
FormationInputs ==
    [formation_type : FormationTypes \cup {"star", ""},
     center : {Pt(0, 0), Pt(3, -2)},
     num_agents : 0..MaxCount,
     spacing : {10 * SCALE, 8 * SCALE},
     heading : {0, 45, 90}]

\* a call of formation_controller.calculate_formation_positions and the list
\* it returns
CalculateCall(in) ==
    /\ last' = [op |-> "calculate_formation_positions",
                arg |-> [in |-> in,
                         positions |-> CalculateFormationPositions(
                                           in.formation_type, in.center, in.num_agents,
                                           in.spacing, in.heading)]]
    /\ UNCHANGED <<agents, nodes, edges, missions, params, metrics, assignments, nops,
                   consensus>>

---------------------------------------------------------------------------
(* _optimize_position_assignments, plan_formation_transition               *)

\* sorted(...) is stable: the order of the indices of keys, ascending by key,
\* equal keys in their original order
RECURSIVE StableOrder(_, _)
StableOrder(keys, rem) ==
    IF rem = {} THEN <<>>
    ELSE LET best == CHOOSE i \in rem :
                        \A j \in rem : keys[i] < keys[j] \/ (keys[i] = keys[j] /\ i <= j)
         IN  <<best>> \o StableOrder(keys, rem \ {best})

\* sorted(agents, key=lambda a: np.linalg.norm(a.position - center))
SortAgentsByCenter(ags, center) ==
    LET keys == [i \in 1..Len(ags) |-> Norm(VSub(ags[i].position, center))]
        order == StableOrder(keys, 1..Len(ags))
    IN  [k \in 1..Len(ags) |-> ags[order[k]]]

\* np.argmin: the first index of the least value
ArgMin(ds) == CHOOSE i \in 1..Len(ds) : \A j \in 1..Len(ds) : ds[i] < ds[j] \/ (ds[i] = ds[j] /\ i <= j)

\* a pop that returns the element and leaves it in the list
PopKeep(s, i) == s

\* list.pop(i)
Pop(s, i) == [k \in 1..(Len(s) - 1) |-> IF k < i THEN s[k] ELSE s[k + 1]]

\* the loop over agents_sorted; an available position is [target, slot], slot
\* its index in target_positions
RECURSIVE GreedyAssign(_, _, _)
GreedyAssign(agents_sorted, available_positions, acc) ==
    IF agents_sorted = <<>> \/ available_positions = <<>>
    THEN [assignments |-> acc, available_positions |-> available_positions]
    ELSE LET agent == Head(agents_sorted)
             distances == [k \in 1..Len(available_positions) |->
                             Norm(VSub(agent.position, available_positions[k].target))]
             closest_idx == ArgMin(distances)
             got == available_positions[closest_idx]
         IN  GreedyAssign(Tail(agents_sorted), Pop(available_positions, closest_idx),
                          Append(acc, [id |-> agent.id, target |-> got.target, slot |-> got.slot]))

\* target_positions.copy(): a new list of the same elements, each with its
\* index in target_positions
ListCopy(target_positions) ==
    [k \in 1..Len(target_positions) |-> [target |-> target_positions[k], slot |-> k]]

\* the run of _optimize_position_assignments: the assignments dict (the sequence
\* of its items) and available_positions when the loop ends.  With no target
\* the loop breaks at once
OptimizeRun(ags, target_positions) ==
    IF target_positions = <<>>
    THEN [assignments |-> <<>>, available_positions |-> <<>>]
    ELSE LET available_positions == ListCopy(target_positions)
             center == Mean(target_positions)
             agents_sorted == SortAgentsByCenter(ags, center)
         IN  GreedyAssign(agents_sorted, available_positions, <<>>)

OptimizePositionAssignments(ags, target_positions) ==
    OptimizeRun(ags, target_positions).assignments

\* the caller's list after the call: the pops acted on the copy
TargetPositionsAfter(ags, target_positions) == target_positions

PlanFormationTransitionResult(reg, target_formation, center, spacing, heading) ==
    IF Len(reg) = 0 THEN <<>>
    ELSE OptimizePositionAssignments(reg,
            CalculateFormationPositions(target_formation, center, Len(reg), spacing, heading))

PlanInputs ==
    { [formation |-> "line",  center |-> Pt(0, 0), spacing |-> 10 * SCALE, heading |-> 0],
      [formation |-> "wedge", center |-> Pt(0, 0), spacing |-> 10 * SCALE, heading |-> 90] }

PlanFormationTransition(in) ==
    /\ nops < MaxOps
    /\ assignments' = PlanFormationTransitionResult(agents, in.formation, in.center,
                                                    in.spacing, in.heading)
    /\ Touch("plan_formation_transition", in)
    /\ UNCHANGED <<agents, nodes, edges, missions, params, metrics>>

TargetLists ==
    { <<>>, <<Pt(0, 5)>>, <<Pt(0, -5), Pt(0, 5)>>, <<Pt(0, 5), Pt(0, 5), Pt(3, 1)>> }

\* _optimize_position_assignments(list(self.agents.values()), target_positions)
OptimizeCall(tp) ==
    /\ nops < MaxOps
    /\ assignments' = OptimizePositionAssignments(agents, tp)
    /\ Touch("optimize_position_assignments",
             [target_positions |-> tp, after |-> TargetPositionsAfter(agents, tp)])
    /\ UNCHANGED <<agents, nodes, edges, missions, params, metrics>>

---------------------------------------------------------------------------
(* execute_formation_transition, _calculate_collision_avoidance            *)

\* a term that grows with the distance, distance / cad
RepulsiveTermLinear(agent, other_agent, cad) ==
    LET relative_pos == VSub(agent.position, other_agent.position)
        distance == Norm(relative_pos)
    IN  IF distance < cad /\ distance > 0
        THEN LET force_magnitude == FDiv(distance, cad)
             IN  <<FDiv(FMul(force_magnitude, relative_pos[1]), distance),
                   FDiv(FMul(force_magnitude, relative_pos[2]), distance)>>
        ELSE <<0, 0>>

\* the contribution of other_agent to the avoidance force on agent
RepulsiveTerm(agent, other_agent, cad) ==
    LET relative_pos == VSub(agent.position, other_agent.position)
        distance == Norm(relative_pos)
    IN  IF distance < cad /\ distance > 0
        THEN LET force_magnitude == FDiv(cad - distance, distance)
             IN  <<FDiv(FMul(force_magnitude, relative_pos[1]), distance),
                   FDiv(FMul(force_magnitude, relative_pos[2]), distance)>>
        ELSE <<0, 0>>

RECURSIVE AvoidanceSum(_, _, _, _)
AvoidanceSum(reg, k, agent, cad) ==
    IF k > Len(reg) THEN <<0, 0>>
    ELSE VAdd(IF reg[k].id = agent.id THEN <<0, 0>> ELSE RepulsiveTerm(agent, reg[k], cad),
              AvoidanceSum(reg, k + 1, agent, cad))

\* the sum over self.agents.values(), read when it is called
CalculateCollisionAvoidance(reg, agent, cad) == AvoidanceSum(reg, 1, agent, cad)

\* the combined velocity left unclipped
ClipVelocityNone(final_velocity, max_speed) == final_velocity

\* np.clip(norm, 0, max_speed) * v / (norm + 1e-8).  1e-8 is below the grid:
\* it only keeps the quotient defined at norm = 0, where the result is 0
ClipVelocity(final_velocity, max_speed) ==
    LET n == Norm(final_velocity)
        clipped == Max2(0, Min2(n, max_speed))
        den == IF n = 0 THEN 1 ELSE n
    IN  <<Quot(clipped * final_velocity[1], den), Quot(clipped * final_velocity[2], den)>>

\* direction / distance * agent.max_speed
DesiredVelocity(agent, target_pos) ==
    LET direction == VSub(target_pos, agent.position)
        distance == Norm(direction)
    IN  <<FMul(FDiv(direction[1], distance), agent.max_speed),
          FMul(FDiv(direction[2], distance), agent.max_speed)>>

\* a step that takes the velocity as the displacement (dt = 1)
MoveAgentFullStep(agent, target_pos, others, prm) ==
    LET direction == VSub(target_pos, agent.position)
        distance == Norm(direction)
    IN  IF distance > prm.formation_tolerance
        THEN LET desired_velocity == DesiredVelocity(agent, target_pos)
                 avoidance_force ==
                     CalculateCollisionAvoidance(others, agent, prm.collision_avoidance_distance)
                 final_velocity ==
                     ClipVelocity(VAdd(desired_velocity, avoidance_force), agent.max_speed)
             IN  [agent EXCEPT !.velocity = final_velocity,
                               !.position = VAdd(agent.position, final_velocity),
                               !.heading = Arctan2(final_velocity[2], final_velocity[1])]
        ELSE agent

\* a step that also charges the agent's energy for the move
MoveAgentUsingEnergy(agent, target_pos, others, prm) ==
    LET direction == VSub(target_pos, agent.position)
        distance == Norm(direction)
    IN  IF distance > prm.formation_tolerance
        THEN LET desired_velocity == DesiredVelocity(agent, target_pos)
                 avoidance_force ==
                     CalculateCollisionAvoidance(others, agent, prm.collision_avoidance_distance)
                 final_velocity ==
                     ClipVelocity(VAdd(desired_velocity, avoidance_force), agent.max_speed)
                 dt == FDiv(SCALE, prm.update_frequency)
             IN  [agent EXCEPT !.velocity = final_velocity,
                               !.position = VAdd(agent.position, VScale(dt, final_velocity)),
                               !.heading = Arctan2(final_velocity[2], final_velocity[1]),
                               !.energy = Max2(0, agent.energy - SCALE)]
        ELSE agent

\* the body of the loop for one agent; others is the registry the avoidance
\* term is read from
MoveAgent(agent, target_pos, others, prm) ==
    LET direction == VSub(target_pos, agent.position)
        distance == Norm(direction)
    IN  IF distance > prm.formation_tolerance
        THEN LET desired_velocity == DesiredVelocity(agent, target_pos)
                 avoidance_force ==
                     CalculateCollisionAvoidance(others, agent, prm.collision_avoidance_distance)
                 final_velocity ==
                     ClipVelocity(VAdd(desired_velocity, avoidance_force), agent.max_speed)
                 dt == FDiv(SCALE, prm.update_frequency)
             IN  [agent EXCEPT !.velocity = final_velocity,
                               !.position = VAdd(agent.position, VScale(dt, final_velocity)),
                               !.heading = Arctan2(final_velocity[2], final_velocity[1])]
        ELSE agent

\* for agent_id, target_pos in assignments.items(): ... (iterations k..end).
\* Each iteration writes the agent in place, so the next one reads the
\* registry as the earlier iterations left it
RECURSIVE ExecuteLoop(_, _, _, _)
ExecuteLoop(reg, asg, k, prm) ==
    IF k > Len(asg) THEN reg
    ELSE IF asg[k].id \in Keys(reg)
         THEN LET i == IndexOf(reg, asg[k].id)
              IN  ExecuteLoop([reg EXCEPT ![i] = MoveAgent(reg[i], asg[k].target, reg, prm)],
                              asg, k + 1, prm)
         ELSE ExecuteLoop(reg, asg, k + 1, prm)

\* a loop that first registers an agent for an assigned id it does not know
ExecuteFormationTransitionRecreate(reg, asg, prm) ==
    LET missing == {k \in 1..Len(asg) : asg[k].id \notin Keys(reg)}
        first == CHOOSE k \in missing : \A j \in missing : k <= j
    IN  IF missing = {} THEN ExecuteLoop(reg, asg, 1, prm)
        ELSE ExecuteLoop(Append(reg, MkAgent(asg[first].id, Pt(0, 0), <<0, 0>>, 30, 10, 100,
                                             <<>>, "active", <<>>)),
                         asg, 1, prm)

ExecuteFormationTransitionResult(reg, asg, prm) == ExecuteLoop(reg, asg, 1, prm)

ExecuteFormationTransition ==
    /\ nops < MaxOps
    /\ agents' = ExecuteFormationTransitionResult(agents, assignments, params)
    /\ Touch("execute_formation_transition", [before |-> agents])
    /\ UNCHANGED <<nodes, edges, missions, params, metrics, assignments>>

\* execute_formation_transition(assignments) called again by a caller that
\* keeps calling it, however often it has been called
ExecuteAgain ==
    /\ agents' = ExecuteFormationTransitionResult(agents, assignments, params)
    /\ last' = [op |-> "execute_formation_transition", arg |-> [before |-> agents]]
    /\ UNCHANGED <<nodes, edges, missions, params, metrics, assignments, nops, consensus>>

---------------------------------------------------------------------------
(* Missions                                                                *)

\* str.lower on the model's alphabet
LowerChar(ch) == CASE ch = "S" -> "s" [] ch = "R" -> "r" [] OTHER -> ch

Lower(str) == [i \in 1..Len(str) |-> LowerChar(str[i])]

\* s in t, for strings
IsSubstring(s, t) ==
    \E i \in 0..(Len(t) - Len(s)) : \A k \in 1..Len(s) : t[i + k] = s[k]

MkMission(id, objective, targets, formation, required) ==
    [id |-> id, objective |-> objective, target_positions |-> targets, priority |-> 1,
     deadline |-> 0, formation_type |-> formation, required_agents |-> required,
     risk_level |-> "medium"]

MissionInputs ==
    { MkMission("m1", <<"S">>, <<Pt(1, 1)>>, "line", 1),
      MkMission("m1", <<"p">>, <<>>, "line", 2),
      MkMission("m2", <<"p", "r">>, <<Pt(0, -5), Pt(0, 5)>>, "line", 2) }

MissionIds == {"m1", "m2"}

CreateMission(mission) ==
    /\ nops < MaxOps
    /\ missions' = [m \in DOMAIN missions \cup {mission.id} |->
                        IF m = mission.id THEN mission ELSE missions[m]]
    /\ Touch("create_mission", mission)
    /\ UNCHANGED <<agents, nodes, edges, params, metrics, assignments>>

\* min([np.linalg.norm(agent.position - target) for target in target_positions])
MinDistance(agent, target_positions) ==
    LET ds == {Norm(VSub(agent.position, target_positions[k])) : k \in 1..Len(target_positions)}
    IN  CHOOSE d \in ds : \A e \in ds : d <= e

AgentScore(agent, mission) ==
    (IF mission.target_positions # <<>>
     THEN FDiv(SCALE, MinDistance(agent, mission.target_positions) + SCALE) ELSE 0)
    + FDiv(agent.energy, 100 * SCALE)
    + (IF IsSubstring(Lower(mission.objective), Lower(agent.role)) THEN 2 * SCALE ELSE 0)
    + (IF \E k \in 1..Len(agent.equipment) :
             IsSubstring(agent.equipment[k], Lower(mission.objective))
       THEN SCALE ELSE 0)

\* seq[:n]
Slice(seq, n) ==
    LET m == IF n >= 0 THEN Min2(n, Len(seq)) ELSE Max2(0, Len(seq) + n)
    IN  [k \in 1..m |-> seq[k]]

\* the ids of sorted(agent_scores, key=score, reverse=True)[:required_agents]
AssignAgentsToMission(reg, mission) ==
    LET keys == [i \in 1..Len(reg) |-> -AgentScore(reg[i], mission)]
        order == StableOrder(keys, 1..Len(reg))
    IN  Slice([k \in 1..Len(reg) |-> reg[order[k]].id], mission.required_agents)

RECURSIVE TotalDistance(_, _, _)
TotalDistance(reg, ids, target_positions) ==
    IF ids = <<>> THEN 0
    ELSE (IF Head(ids) \in Keys(reg)
          THEN MinDistance(Get(reg, Head(ids)), target_positions) ELSE 0)
         + TotalDistance(reg, Tail(ids), target_positions)

\* the progress left unclamped
ProgressOfUnclamped(avg_distance) == SCALE - FDiv(avg_distance, 100 * SCALE)

\* progress = max(0, 1.0 - avg_distance / 100.0)
ProgressOf(avg_distance) == Max2(0, SCALE - FDiv(avg_distance, 100 * SCALE))

\* _update_mission_progress past its early return
ProgressFromAgents(reg, mission, mtr) ==
    LET assigned_agents == AssignAgentsToMission(reg, mission)
        total_distance == TotalDistance(reg, assigned_agents, mission.target_positions)
    IN  IF assigned_agents # <<>>
        THEN [mtr EXCEPT !.mission_progress =
                             ProgressOf(Quot(total_distance, Len(assigned_agents)))]
        ELSE mtr

\* an early return that resets the progress metric
UpdateMissionProgressResultReset(reg, mission, mtr) ==
    IF mission.target_positions = <<>> THEN [mtr EXCEPT !.mission_progress = 0]
    ELSE ProgressFromAgents(reg, mission, mtr)

\* the value of self.metrics after _update_mission_progress
UpdateMissionProgressResult(reg, mission, mtr) ==
    IF mission.target_positions = <<>> THEN mtr
    ELSE ProgressFromAgents(reg, mission, mtr)

UpdateMissionProgress(mission_id) ==
    /\ nops < MaxOps
    /\ mission_id \in DOMAIN missions
    /\ metrics' = UpdateMissionProgressResult(agents, missions[mission_id], metrics)
    /\ Touch("update_mission_progress", mission_id)
    /\ UNCHANGED <<agents, nodes, edges, missions, params, assignments>>

\* the registry after the planning and motion part of coordinate_mission_execution
CoordinateMotion(reg, mission, prm) ==
    IF mission.target_positions # <<>>
    THEN LET target_center == Mean(mission.target_positions)
             asg == PlanFormationTransitionResult(reg, mission.formation_type, target_center,
                                                  10 * SCALE, 0)
         IN  ExecuteFormationTransitionResult(reg, asg, prm)
    ELSE reg

\* an unknown mission id that also reports a progress of 0
CoordinateResultResetProgress(reg, mtr, ms, mission_id, prm) ==
    IF mission_id \notin DOMAIN ms
    THEN [agents |-> reg, metrics |-> [mtr EXCEPT !.mission_progress = 0]]
    ELSE LET moved == CoordinateMotion(reg, ms[mission_id], prm)
         IN  [agents |-> moved,
              metrics |-> UpdateMissionProgressResult(moved, ms[mission_id], mtr)]

\* self.agents and self.metrics after coordinate_mission_execution; an unknown
\* mission id is logged and the call returns
CoordinateResult(reg, mtr, ms, mission_id, prm) ==
    IF mission_id \notin DOMAIN ms
    THEN [agents |-> reg, metrics |-> mtr]
    ELSE LET moved == CoordinateMotion(reg, ms[mission_id], prm)
         IN  [agents |-> moved,
              metrics |-> UpdateMissionProgressResult(moved, ms[mission_id], mtr)]

CoordinateMissionExecution(mission_id) ==
    /\ nops < MaxOps
    /\ agents' = CoordinateResult(agents, metrics, missions, mission_id, params).agents
    /\ metrics' = CoordinateResult(agents, metrics, missions, mission_id, params).metrics
    /\ Touch("coordinate_mission_execution", mission_id)
    /\ UNCHANGED <<nodes, edges, missions, params, assignments>>

---------------------------------------------------------------------------
(* implement_consensus_algorithm                                           *)

EmptyMap == [x \in {} |-> 0]

max_iterations == 100

\* 0.01
convergence_threshold == SCALE \div 100

\* no call of implement_consensus_algorithm is in progress or has been made
ConsensusIdle ==
    [pc |-> "idle", initial_values |-> EmptyMap, iteration |-> 0,
     current_values |-> EmptyMap, new_values |-> EmptyMap, ret |-> 0]

\* sum(values[k] for k in keys)
RECURSIVE SumValues(_, _)
SumValues(values, keys) ==
    IF keys = {} THEN 0
    ELSE LET k == CHOOSE x \in keys : TRUE
         IN  values[k] + SumValues(values, keys \ {k})

\* max(list) of a non-empty list
MaxOf(xs) == CHOOSE m \in xs : \A x \in xs : x <= m

\* a neighbour without a value read as 0
NeighborValueZero(current_values, agent_id, neighbor) ==
    IF neighbor \in DOMAIN current_values THEN current_values[neighbor] ELSE 0

\* current_values.get(neighbor, current_values[agent_id])
NeighborValue(current_values, agent_id, neighbor) ==
    IF neighbor \in DOMAIN current_values THEN current_values[neighbor]
    ELSE current_values[agent_id]

\* an average that leaves the agent itself out of the count
AverageOfNeighborsOnly(current_values, agent_id, neighbors) ==
    LET neighbor_values == [n \in neighbors |-> NeighborValue(current_values, agent_id, n)]
    IN  Quot(current_values[agent_id] + SumValues(neighbor_values, neighbors),
             Cardinality(neighbors))

\* avg_value, for a non-empty neighbor list
AverageWithNeighbors(current_values, agent_id, neighbors) ==
    LET neighbor_values == [n \in neighbors |-> NeighborValue(current_values, agent_id, n)]
    IN  Quot(current_values[agent_id] + SumValues(neighbor_values, neighbors),
             Cardinality(neighbors) + 1)

\* an update in place: each agent reads the values the agents before it have
\* already written in this iteration
RECURSIVE InPlaceValues(_, _)
InPlaceValues(values, todo) ==
    IF todo = {} THEN values
    ELSE LET agent_id == CHOOSE x \in todo : TRUE
             avg_value == IF Neighbors(agent_id) = {} THEN values[agent_id]
                          ELSE AverageWithNeighbors(values, agent_id, Neighbors(agent_id))
         IN  InPlaceValues([values EXCEPT ![agent_id] = avg_value], todo \ {agent_id})

ConsensusNewValuesInPlace(current_values) ==
    LET ids == DOMAIN current_values \cap Keys(agents)
        written == InPlaceValues(current_values, ids)
    IN  [agent_id \in ids |-> written[agent_id]]

\* new_values at the end of the inner loop: one entry per key of current_values
\* that is a registered agent, each computed from current_values
ConsensusNewValues(current_values) ==
    [agent_id \in DOMAIN current_values \cap Keys(agents) |->
        IF Neighbors(agent_id) = {}
        THEN current_values[agent_id]
        ELSE AverageWithNeighbors(current_values, agent_id, Neighbors(agent_id))]

\* the call: current_values = initial_values.copy()
ConsensusStart(initial_values) ==
    /\ consensus.pc \in {"idle", "returned", "raised"}
    /\ consensus' = [pc |-> "loop", initial_values |-> initial_values, iteration |-> 0,
                     current_values |-> initial_values, new_values |-> EmptyMap, ret |-> 0]
    /\ last' = [op |-> "implement_consensus_algorithm", arg |-> initial_values]
    /\ UNCHANGED <<agents, nodes, edges, missions, params, metrics, assignments, nops>>

\* one pass of the body of `for iteration in range(max_iterations)`.  max() of
\* an empty list raises ValueError, which leaves the call
ConsensusIterate ==
    /\ consensus.pc = "loop"
    /\ LET new_values == ConsensusNewValues(consensus.current_values)
           changes == {Abs(new_values[aid] - consensus.current_values[aid]) :
                          aid \in DOMAIN consensus.current_values \cap DOMAIN new_values}
       IN  consensus' =
             IF changes = {}
             THEN [consensus EXCEPT !.pc = "raised", !.new_values = new_values]
             ELSE IF MaxOf(changes) < convergence_threshold
             THEN [consensus EXCEPT !.pc = "exit", !.new_values = new_values]
             ELSE [consensus EXCEPT
                     !.pc = IF consensus.iteration + 1 < max_iterations THEN "loop" ELSE "exit",
                     !.iteration = consensus.iteration + 1,
                     !.current_values = new_values,
                     !.new_values = new_values]
    /\ UNCHANGED <<agents, nodes, edges, missions, params, metrics, assignments, last, nops>>

\* return sum(new_values.values()) / len(new_values), or 0.0
ConsensusReturn ==
    /\ consensus.pc = "exit"
    /\ consensus' =
         [consensus EXCEPT
            !.pc = "returned",
            !.ret = IF DOMAIN consensus.new_values # {}
                    THEN Quot(SumValues(consensus.new_values, DOMAIN consensus.new_values),
                              Cardinality(DOMAIN consensus.new_values))
                    ELSE 0]
    /\ UNCHANGED <<agents, nodes, edges, missions, params, metrics, assignments, last, nops>>

\* swarms to run the consensus on: none; three agents in range of each other
\* and a fourth out of everyone's range; a chain a - b - c; a pair
ConsensusSwarms ==
    { <<>>,
      << MkAgent("a", Pt(0, 0), <<0, 0>>, 30, 10, 100, <<"s">>, "active", <<>>),
         MkAgent("b", Pt(3, 0), <<0, 0>>, 30, 10, 100, <<"s">>, "active", <<>>),
         MkAgent("c", Pt(0, 4), <<0, 0>>, 30, 10, 100, <<"s">>, "active", <<>>),
         MkAgent("d", Pt(100, 100), <<0, 0>>, 30, 10, 100, <<"s">>, "active", <<>>) >>,
      << MkAgent("a", Pt(0, 0), <<0, 0>>, 30, 10, 100, <<"s">>, "active", <<>>),
         MkAgent("b", Pt(25, 0), <<0, 0>>, 30, 10, 100, <<"s">>, "active", <<>>),
         MkAgent("c", Pt(50, 0), <<0, 0>>, 30, 10, 100, <<"s">>, "active", <<>>) >>,
      << MkAgent("a", Pt(0, 0), <<0, 0>>, 30, 10, 100, <<"s">>, "active", <<>>),
         MkAgent("b", Pt(3, 0), <<0, 0>>, 30, 10, 100, <<"s">>, "active", <<>>) >> }

\* initial_values maps handed to the call; "z" is never registered
ConsensusInputs ==
    { EmptyMap,
      ("a" :> 0) @@ ("b" :> 10 * SCALE) @@ ("c" :> 20 * SCALE) @@ ("d" :> 100 * SCALE),
      ("a" :> 0) @@ ("b" :> 10 * SCALE) @@ ("c" :> 15 * SCALE),
      ("a" :> 5 * SCALE) @@ ("b" :> 5 * SCALE) @@ ("c" :> 5 * SCALE),
      ("b" :> 0) @@ ("c" :> 100 * SCALE),
      ("a" :> -3 * SCALE) @@ ("b" :> 4 * SCALE),
      ("a" :> 4 * SCALE) @@ ("z" :> 8 * SCALE) }

---------------------------------------------------------------------------
(* optimize_swarm_parameters                                               *)

\* self.coordination_params after optimize_swarm_parameters
OptimizeSwarmParametersResult(prm, mtr) ==
    LET tolerance ==
            IF mtr.formation_error > 5 * SCALE
            THEN FMul(prm.formation_tolerance, (11 * SCALE) \div 10)
            ELSE IF mtr.formation_error < SCALE
            THEN FMul(prm.formation_tolerance, (95 * SCALE) \div 100)
            ELSE prm.formation_tolerance
        avoidance ==
            IF mtr.collision_count > 0
            THEN FMul(prm.collision_avoidance_distance, (12 * SCALE) \div 10)
            ELSE prm.collision_avoidance_distance
        range ==
            IF mtr.communication_efficiency < SCALE \div 2
            THEN FMul(prm.max_communication_range, (11 * SCALE) \div 10)
            ELSE prm.max_communication_range
    IN  [prm EXCEPT !.formation_tolerance = tolerance,
                    !.collision_avoidance_distance = avoidance,
                    !.max_communication_range = range]

OptimizeSwarmParameters ==
    /\ nops < MaxOps
    /\ params' = OptimizeSwarmParametersResult(params, metrics)
    /\ Touch("optimize_swarm_parameters", [before |-> params])
    /\ UNCHANGED <<agents, nodes, edges, missions, metrics, assignments>>

\* values of self.metrics.  The class itself writes mission_progress only and
\* leaves the other entries at 0; the other values are the ones a caller
\* stores in the dict before it asks for the tuning
TuningMetrics ==
    [formation_error : {0, SCALE \div 2, SCALE, 3 * SCALE, 5 * SCALE, 6 * SCALE},
     communication_efficiency : {0, SCALE \div 2, (7 * SCALE) \div 10},
     mission_progress : {0},
     energy_consumption : {0},
     collision_count : {0, 1, 2}]

---------------------------------------------------------------------------

Init ==
    /\ agents = <<>>
    /\ nodes = {}
    /\ edges = [e \in {} |-> 0]
    /\ missions = [m \in {} |-> 0]
    /\ params = [max_communication_range |-> 100 * SCALE,
                 collision_avoidance_distance |-> 5 * SCALE,
                 formation_tolerance |-> 2 * SCALE,
                 update_frequency |-> 10 * SCALE,
                 consensus_threshold |-> (7 * SCALE) \div 10]
    /\ metrics = [formation_error |-> 0, communication_efficiency |-> 0,
                  mission_progress |-> 0, energy_consumption |-> 0,
                  collision_count |-> 0]
    /\ assignments = <<>>
    /\ last = [op |-> "init", arg |-> <<>>]
    /\ nops = 0
    /\ consensus = ConsensusIdle

Next ==
    \/ \E agent \in AgentInputs : AddAgent(agent)
    \/ \E id \in AgentIds : RemoveAgent(id)
    \/ UpdateCommunicationGraph
    \/ \E in \in PlanInputs : PlanFormationTransition(in)
    \/ \E tp \in TargetLists : OptimizeCall(tp)
    \/ ExecuteFormationTransition
    \/ \E mission \in MissionInputs : CreateMission(mission)
    \/ \E mission_id \in MissionIds : UpdateMissionProgress(mission_id)
    \/ \E mission_id \in MissionIds : CoordinateMissionExecution(mission_id)

Spec == Init /\ [][Next]_vars

\* Agent(...) with a given velocity and heading, range 30, energy 100
MkMover(id, pos, vel, heading, speed) ==
    [MkAgent(id, pos, vel, 30, speed, 100, <<"s">>, "active", <<>>) EXCEPT !.heading = heading]

\* swarms to execute assignment maps on.  Headings: <<1, 0>> is pi/2
MotionSwarms ==
    { << MkMover("a", Pt(0, 0), Pt(3, 4), <<1, 0>>, 10) >>,
      << MkMover("a", Pt(0, 0), <<0, 0>>, <<1, 0>>, 4),
         MkMover("b", Pt(1, 0), <<0, 0>>, <<0, 1>>, 10) >>,
      << MkMover("a", Pt(0, 0), Pt(3, 4), <<1, 0>>, 10),
         MkMover("b", Pt(0, 3), <<0, 0>>, <<0, 1>>, 10) >>,
      << MkMover("a", Pt(0, 0), <<0, 0>>, <<0, 1>>, 10),
         MkMover("b", Pt(3, 4), <<0, 0>>, <<1, 1>>, 10),
         MkMover("c", Pt(0, 1), <<0, 0>>, <<0, 1>>, 10) >>,
      << MkMover("a", Pt(0, 0), <<0, 0>>, <<0, 1>>, 10),
         MkMover("b", Pt(2, 0), <<0, 0>>, <<0, 1>>, 10),
         MkMover("c", Pt(0, 4), <<0, 0>>, <<0, 1>>, 5) >>,
      << MkMover("a", Pt(0, 0), <<0, 0>>, <<0, 1>>, 5),
         MkMover("b", Pt(6, 0), Pt(1, 0), <<0, 1>>, 10) >> }

\* assignment maps handed to execute_formation_transition
MotionAssignments ==
    { << [id |-> "a", target |-> Pt(10, 0), slot |-> 1] >>,
      << [id |-> "a", target |-> Pt(1, 0), slot |-> 1] >>,
      << [id |-> "a", target |-> Pt(0, 3), slot |-> 1],
         [id |-> "b", target |-> Pt(0, -4), slot |-> 2] >>,
      << [id |-> "b", target |-> Pt(2, 1), slot |-> 1],
         [id |-> "a", target |-> Pt(-3, 0), slot |-> 2],
         [id |-> "c", target |-> Pt(0, 5), slot |-> 3] >> }

\* A coordinator holding one of MotionSwarms, whose caller holds one of
\* MotionAssignments
InitMotion ==
    /\ agents \in MotionSwarms
    /\ nodes = Keys(agents)
    /\ edges = ClearEdges(EmptyMap)
    /\ missions = [m \in {} |-> 0]
    /\ params = [max_communication_range |-> 100 * SCALE,
                 collision_avoidance_distance |-> 5 * SCALE,
                 formation_tolerance |-> 2 * SCALE,
                 update_frequency |-> 10 * SCALE,
                 consensus_threshold |-> (7 * SCALE) \div 10]
    /\ metrics = [formation_error |-> 0, communication_efficiency |-> 0,
                  mission_progress |-> 0, energy_consumption |-> 0,
                  collision_count |-> 0]
    /\ assignments \in MotionAssignments
    /\ last = [op |-> "init", arg |-> <<>>]
    /\ nops = 0
    /\ consensus = ConsensusIdle

NextMotion == ExecuteFormationTransition

\* repeated execute_formation_transition(assignments) on such a coordinator
SpecMotion == InitMotion /\ [][NextMotion]_vars

\* A new coordinator whose metrics are one of TuningMetrics
InitTuning ==
    /\ agents = <<>>
    /\ nodes = {}
    /\ edges = [e \in {} |-> 0]
    /\ missions = [m \in {} |-> 0]
    /\ params = [max_communication_range |-> 100 * SCALE,
                 collision_avoidance_distance |-> 5 * SCALE,
                 formation_tolerance |-> 2 * SCALE,
                 update_frequency |-> 10 * SCALE,
                 consensus_threshold |-> (7 * SCALE) \div 10]
    /\ metrics \in TuningMetrics
    /\ assignments = <<>>
    /\ last = [op |-> "init", arg |-> <<>>]
    /\ nops = 0
    /\ consensus = ConsensusIdle

NextTuning == OptimizeSwarmParameters

\* repeated optimize_swarm_parameters on such a coordinator
SpecTuning == InitTuning /\ [][NextTuning]_vars

NextArrival == ExecuteAgain

\* execute_formation_transition(assignments) applied again and again to the
\* same assignment map
SpecArrival == InitMotion /\ [][NextArrival]_vars

NextFormation == \E in \in FormationInputs : CalculateCall(in)

\* the formation controller of a new coordinator, called with FormationInputs
SpecFormation == Init /\ [][NextFormation]_vars

\* A coordinator holding one of ConsensusSwarms, its graph either never
\* rebuilt since the agents were added or just rebuilt, on which the consensus
\* is run
InitConsensus ==
    /\ agents \in ConsensusSwarms
    /\ nodes = Keys(agents)
    /\ edges \in {ClearEdges(EmptyMap), BuildEdges(ClearEdges(EmptyMap), agents)}
    /\ missions = [m \in {} |-> 0]
    /\ params = [max_communication_range |-> 100 * SCALE,
                 collision_avoidance_distance |-> 5 * SCALE,
                 formation_tolerance |-> 2 * SCALE,
                 update_frequency |-> 10 * SCALE,
                 consensus_threshold |-> (7 * SCALE) \div 10]
    /\ metrics = [formation_error |-> 0, communication_efficiency |-> 0,
                  mission_progress |-> 0, energy_consumption |-> 0,
                  collision_count |-> 0]
    /\ assignments = <<>>
    /\ last = [op |-> "init", arg |-> <<>>]
    /\ nops = 0
    /\ consensus = ConsensusIdle

NextConsensus ==
    \/ \E initial_values \in ConsensusInputs : ConsensusStart(initial_values)
    \/ ConsensusIterate
    \/ ConsensusReturn

SpecConsensus == InitConsensus /\ [][NextConsensus]_vars

---------------------------------------------------------------------------
(* Properties                                                              *)

DistSq(p, q) == (p[1] - q[1]) * (p[1] - q[1]) + (p[2] - q[2]) * (p[2] - q[2])

Sq(x) == x * x

\* C1: add_agent with an id already in the registry is rejected: the registered
\* record and the communication graph stay as they were.
C1_DuplicateAddRejected ==
    [][(last'.op = "add_agent" /\ last'.arg.dup)
          => (agents' = agents /\ nodes' = nodes /\ edges' = edges)]_vars

\* C2: the graph's node set is the set of registered ids, each id is registered
\* once, and every edge joins two distinct registered agents.
C2_GraphNodesAreRegistry ==
    /\ nodes = Keys(agents)
    /\ Cardinality(Keys(agents)) = Len(agents)
    /\ \A e \in DOMAIN edges : Cardinality(e) = 2 /\ e \subseteq Keys(agents)
    /\ (last.op = "remove_agent" /\ last.arg.known /\ nops = 2 /\ Len(agents) = 0)
          => (nodes = {} /\ DOMAIN edges = {})

\* an agent was removed while another pair stays linked
C2_Witness ==
    /\ last.op = "remove_agent"
    /\ last.arg.known
    /\ DOMAIN edges # {}

\* C3: right after a rebuild, two distinct agents are linked iff their distance
\* is at most the smaller of their two ranges; the relation is symmetric and has
\* no self-loop.
C3_EdgesMatchRange ==
    last.op = "update_communication_graph" =>
        /\ \A i, j \in 1..Len(agents) :
              i # j =>
                 (Pair(agents[i].id, agents[j].id) \in DOMAIN edges
                    <=> DistSq(agents[i].position, agents[j].position)
                          <= Sq(Min2(agents[i].communication_range,
                                     agents[j].communication_range)))
        /\ \A e \in DOMAIN edges : Cardinality(e) = 2
        /\ \A x, y \in nodes : (y \in Neighbors(x)) <=> (x \in Neighbors(y))
        /\ \A x \in nodes : x \notin Neighbors(x)

\* a rebuild with one pair exactly at the smaller range (linked) and one pair
\* beyond the smaller but within the larger range (not linked)
C3_Witness ==
    /\ last.op = "update_communication_graph"
    /\ \E i, j \in 1..Len(agents) :
          /\ i # j
          /\ DistSq(agents[i].position, agents[j].position)
                = Sq(Min2(agents[i].communication_range, agents[j].communication_range))
          /\ Pair(agents[i].id, agents[j].id) \in DOMAIN edges
    /\ \E i, j \in 1..Len(agents) :
          /\ DistSq(agents[i].position, agents[j].position)
                > Sq(Min2(agents[i].communication_range, agents[j].communication_range))
          /\ DistSq(agents[i].position, agents[j].position)
                <= Sq(Max2(agents[i].communication_range, agents[j].communication_range))
          /\ Pair(agents[i].id, agents[j].id) \notin DOMAIN edges

\* the graph built from no edges at all
EdgesFromScratch(reg) == BuildEdges([e \in {} |-> 0], reg)

\* C4: a rebuild yields the edges (and weights) that the current positions and
\* ranges alone determine, whatever edges existed before, and a second rebuild
\* right after the first yields the same edges again.
C4_RebuildIdempotentHistoryFree ==
    [][last'.op = "update_communication_graph"
          => /\ edges' = EdgesFromScratch(agents')
             /\ (last.op = "update_communication_graph" => edges' = edges)]_vars

\* a rebuild dropped an edge that existed before it
C4_Witness ==
    /\ last.op = "update_communication_graph"
    /\ last.arg.before \ DOMAIN edges # {}

\* C5: every registered agent's velocity magnitude is at most its max_speed.
C5_VelocityCapped ==
    \A i \in 1..Len(agents) :
        Sq(agents[i].velocity[1]) + Sq(agents[i].velocity[2])
            <= Sq(agents[i].max_speed)

\* a motion step in which the first agent's desired velocity plus avoidance
\* exceeded its max_speed before the clip
C5_Witness ==
    /\ last.op = "execute_formation_transition"
    /\ assignments # <<>>
    /\ LET before == last.arg.before
           id == assignments[1].id
       IN  /\ id \in Keys(before)
           /\ LET agent == Get(before, id)
                  target == assignments[1].target
              IN  /\ Norm(VSub(target, agent.position)) > params.formation_tolerance
                  /\ DistSq(<<0, 0>>,
                            VAdd(DesiredVelocity(agent, target),
                                 CalculateCollisionAvoidance(before, agent,
                                     params.collision_avoidance_distance)))
                        > Sq(agent.max_speed)
                  /\ Get(agents, id).position # agent.position


\* the step computed from the positions all agents had when it started
SnapshotStep(before, asg, prm) ==
    [i \in 1..Len(before) |->
        IF \E k \in 1..Len(asg) : asg[k].id = before[i].id
        THEN LET k == CHOOSE k \in 1..Len(asg) : asg[k].id = before[i].id
             IN  MoveAgent(before[i], asg[k].target, before, prm)
        ELSE before[i]]

\* C6: in one motion step every agent's new velocity and position are computed
\* from the positions all agents had at the start of the step.
C6_MotionReadsStartOfStep ==
    last.op = "execute_formation_transition"
        => agents = SnapshotStep(last.arg.before, assignments, params)

\* the target list the last planning call assigned from
PlannedTargets ==
    IF last.op = "optimize_position_assignments" THEN last.arg.target_positions
    ELSE IF Len(agents) = 0 THEN <<>>
    ELSE CalculateFormationPositions(last.arg.formation, last.arg.center, Len(agents),
                                     last.arg.spacing, last.arg.heading)

\* C7: the assignment gives min(|agents|, |targets|) registered agents one
\* target each, every one an entry of the target list, no entry to two agents,
\* and the caller's target list is as it was.
C7_AssignmentInjective ==
    last.op \in {"optimize_position_assignments", "plan_formation_transition"} =>
        LET tp == PlannedTargets
            n == Len(assignments)
        IN  /\ n = Min2(Len(agents), Len(tp))
            /\ \A k \in 1..n :
                  /\ assignments[k].id \in Keys(agents)
                  /\ assignments[k].slot \in 1..Len(tp)
                  /\ assignments[k].target = tp[assignments[k].slot]
            /\ \A k, l \in 1..n :
                  k # l => /\ assignments[k].id # assignments[l].id
                           /\ assignments[k].slot # assignments[l].slot
            /\ last.op = "optimize_position_assignments" => last.arg.after = tp

\* an assignment from a non-empty list with fewer targets than agents
C7_Witness ==
    /\ last.op = "optimize_position_assignments"
    /\ Len(last.arg.target_positions) > 0
    /\ Len(last.arg.target_positions) < Len(agents)
    /\ Len(assignments) = Len(last.arg.target_positions)
    /\ \E i \in 1..Len(agents) :
          \A k \in 1..Len(assignments) : assignments[k].id # agents[i].id

\* the assignments dict as a map
AssignmentMap(asg) == {<<asg[k].id, asg[k].target>> : k \in 1..Len(asg)}

\* the registries holding the same agents in another insertion order
Reorderings(reg) ==
    {[i \in 1..Len(reg) |-> reg[f[i]]] : f \in Permutations(1..Len(reg))}

\* C8: the assignment map is the same for every insertion order of the same
\* agents.
C8_AssignmentIgnoresInsertionOrder ==
    last.op = "optimize_position_assignments" =>
        \A reg \in Reorderings(agents) :
            AssignmentMap(OptimizePositionAssignments(reg, last.arg.target_positions))
                = AssignmentMap(assignments)

\* the mission whose progress the last call updated, if it did
ProgressCall ==
    /\ last.op \in {"update_mission_progress", "coordinate_mission_execution"}
    /\ last.arg \in DOMAIN missions
    /\ missions[last.arg].target_positions # <<>>
    /\ AssignAgentsToMission(agents, missions[last.arg]) # <<>>

SelectedDistances ==
    LET mission == missions[last.arg]
        selected == AssignAgentsToMission(agents, mission)
    IN  [k \in 1..Len(selected) |->
            MinDistance(Get(agents, selected[k]), mission.target_positions)]

RECURSIVE SumSeq(_)
SumSeq(xs) == IF xs = <<>> THEN 0 ELSE Head(xs) + SumSeq(Tail(xs))

\* C9: mission progress is within [0, 1]; an update sets it to 1 when every
\* selected agent is at its nearest target and to 0 when their mean distance
\* to the nearest target is at least 100.
C9_ProgressBounds ==
    /\ metrics.mission_progress >= 0
    /\ metrics.mission_progress <= SCALE
    /\ ProgressCall =>
          /\ (\A k \in DOMAIN SelectedDistances : SelectedDistances[k] = 0)
                => metrics.mission_progress = SCALE
          /\ SumSeq(SelectedDistances) >= 100 * SCALE * Len(SelectedDistances)
                => metrics.mission_progress = 0

\* an update with the selected agents further than 100 away on average
C9_Witness ==
    /\ ProgressCall
    /\ SumSeq(SelectedDistances) > 100 * SCALE * Len(SelectedDistances)
    /\ metrics.mission_progress = 0

\* C10: coordinating or updating a mission with no target position changes
\* neither the progress metric nor any agent.
C10_EmptyTargetsNoOp ==
    [][(/\ last'.op \in {"update_mission_progress", "coordinate_mission_execution"}
        /\ last'.arg \in DOMAIN missions
        /\ missions[last'.arg].target_positions = <<>>)
          => (agents' = agents /\ metrics' = metrics)]_vars

\* a mission without targets coordinated while agents are registered and the
\* progress metric is not zero
C10_Witness ==
    /\ last.op = "coordinate_mission_execution"
    /\ last.arg \in DOMAIN missions
    /\ missions[last.arg].target_positions = <<>>
    /\ agents # <<>>
    /\ metrics.mission_progress > 0

\* C11: coordinate_mission_execution with a mission id that is not registered
\* returns without changing anything: agents, graph, mission table, metrics,
\* coordination parameters and the caller's assignments are as before.
C11_UnknownMissionNoChange ==
    [][(last'.op = "coordinate_mission_execution" /\ last'.arg \notin DOMAIN missions)
          => UNCHANGED <<agents, nodes, edges, missions, metrics, params, assignments>>]_vars

\* an unknown mission is coordinated on a swarm that has agents, a registered
\* mission and a progress above 0
C11_Witness ==
    /\ last.op = "coordinate_mission_execution"
    /\ last.arg \notin DOMAIN missions
    /\ DOMAIN missions # {}
    /\ agents # <<>>
    /\ metrics.mission_progress > 0

\* C12: remove_agent(A) of a registered A takes A out of the registry and takes
\* its node and every edge at A out of the graph; remove_agent of an unknown id
\* changes nothing; executing an assignment map, also one planned before a
\* removal, keeps the registry's ids as they are (a removed agent is not
\* re-created) and changes only registered agents that have an assignment.
C12_RemovedAgentStaysRemoved ==
    [][/\ (last'.op = "remove_agent" /\ last'.arg.known)
            => /\ last'.arg.id \in Keys(agents)
               /\ last'.arg.id \notin Keys(agents')
               /\ Keys(agents') = Keys(agents) \ {last'.arg.id}
               /\ nodes' = nodes \ {last'.arg.id}
               /\ \A e \in DOMAIN edges' : last'.arg.id \notin e
       /\ (last'.op = "remove_agent" /\ ~last'.arg.known)
            => UNCHANGED <<agents, nodes, edges, missions, metrics, params, assignments>>
       /\ (last'.op = "execute_formation_transition")
            => /\ [i \in 1..Len(agents') |-> agents'[i].id]
                    = [i \in 1..Len(agents) |-> agents[i].id]
               /\ \A i \in 1..Len(agents) :
                     agents'[i] # agents[i]
                        => \E k \in 1..Len(assignments) : assignments[k].id = agents[i].id
               /\ UNCHANGED <<nodes, edges>>
      ]_vars

\* an assignment map planned for two agents was executed after one of them was
\* removed, and the other one moved
C12_Witness ==
    /\ last.op = "execute_formation_transition"
    /\ \E k \in 1..Len(assignments) : assignments[k].id \notin Keys(agents)
    /\ \E k \in 1..Len(assignments) : assignments[k].id \in Keys(agents)
    /\ agents # last.arg.before

\* C13: on a coordinator with no agents, implement_consensus_algorithm with any
\* initial-value map completes without raising.
C13_EmptySwarmConsensusCompletes ==
    (agents = <<>> /\ last.op = "implement_consensus_algorithm")
        => consensus.pc # "raised"

\* the per-agent values the run holds: current_values while the loop runs,
\* new_values once it has been left
ConsensusValues ==
    IF consensus.pc = "loop" THEN consensus.current_values ELSE consensus.new_values

\* every agent of group is linked to exactly the others of group
FullyConnected(group) == \A x \in group : Neighbors(x) \cup {x} = group

\* the agents that hold a value in the run
ConsensusAgents == Keys(agents) \cap DOMAIN consensus.initial_values

\* C14: agents that are fully connected to each other (and all hold an initial
\* value) are, from the end of the first iteration on, within the convergence
\* threshold of the mean of their initial values; an agent with no neighbours
\* holds its initial value at every moment of the run; and when every agent is
\* of one of these two kinds the loop is left in its second iteration at the
\* latest, far below max_iterations.
C14_ConsensusConvergesToMean ==
    consensus.pc \in {"loop", "exit", "returned"} =>
        /\ \A id \in ConsensusAgents :
              LET group == Neighbors(id) \cup {id}
              IN  /\ Neighbors(id) = {}
                        => ConsensusValues[id] = consensus.initial_values[id]
                  /\ ( /\ Neighbors(id) # {}
                       /\ FullyConnected(group)
                       /\ group \subseteq DOMAIN consensus.initial_values
                       /\ (consensus.iteration >= 1 \/ consensus.pc # "loop") )
                        => Abs(Cardinality(group) * ConsensusValues[id]
                                 - SumValues(consensus.initial_values, group))
                             <= Cardinality(group) * convergence_threshold
        /\ ( /\ consensus.pc \in {"exit", "returned"}
             /\ \A id \in ConsensusAgents :
                   \/ Neighbors(id) = {}
                   \/ /\ FullyConnected(Neighbors(id) \cup {id})
                      /\ Neighbors(id) \cup {id} \subseteq DOMAIN consensus.initial_values )
              => (consensus.iteration <= 1 /\ consensus.iteration < max_iterations)

\* the run {a: 0, b: 10, c: 20, d: 100} on a, b, c in range of each other and d
\* alone has returned: a, b, c hold 10 and d holds 100
C14_Witness ==
    /\ consensus.pc = "returned"
    /\ Len(agents) = 4
    /\ Neighbors("a") = {"b", "c"}
    /\ Neighbors("d") = {}
    /\ DOMAIN consensus.initial_values = {"a", "b", "c", "d"}
    /\ \A id \in {"a", "b", "c"} : consensus.new_values[id] = 10 * SCALE
    /\ consensus.new_values["d"] = 100 * SCALE
    /\ consensus.initial_values["a"] = 0

\* C15: calculate_formation_positions with a formation type that is not one of
\* the seven known ones returns exactly the 'line' positions for the same
\* center, count, spacing and heading; so does 'diamond' with fewer than 4
\* agents.
C15_UnknownShapeIsLine ==
    last.op = "calculate_formation_positions" =>
        LET in == last.arg.in
        IN  (in.formation_type \notin FormationTypes
               \/ (in.formation_type = "diamond" /\ in.num_agents < 4))
              => last.arg.positions
                   = LineFormation(in.center, in.num_agents, in.spacing, in.heading)

\* an unknown type was asked for three agents off the origin at heading 45, and
\* the three positions are distinct
C15_Witness ==
    /\ last.op = "calculate_formation_positions"
    /\ last.arg.in.formation_type = "star"
    /\ last.arg.in.num_agents = 3
    /\ last.arg.in.heading = 45
    /\ Len(last.arg.positions) = 3
    /\ last.arg.positions[1] # last.arg.positions[3]

\* C16: the agents _assign_agents_to_mission selects for a mission with
\* targets, and that the progress update then counts, all have status 'active'.
C16_SelectedAgentsAreActive ==
    (last.op \in {"update_mission_progress", "coordinate_mission_execution"}
       /\ last.arg \in DOMAIN missions
       /\ missions[last.arg].target_positions # <<>>)
       => LET selected == AssignAgentsToMission(agents, missions[last.arg])
          IN  \A k \in 1..Len(selected) : Get(agents, selected[k]).status = "active"

\* C17: a coordination step rebuilds the communication graph from the positions
\* it starts with before it moves any agent or updates the progress: when
\* coordinate_mission_execution has moved an agent, the graph is the one built
\* from the positions the call started with.
C17_GraphRebuiltBeforeMotion ==
    [][(last'.op = "coordinate_mission_execution"
          /\ last'.arg \in DOMAIN missions
          /\ agents' # agents)
          => edges' = EdgesFromScratch(agents)]_vars

\* some agent of reg other than agent is closer to it than cad, not at its place
NeighbourInside(reg, agent, cad) ==
    \E j \in 1..Len(reg) :
        /\ reg[j].id # agent.id
        /\ Norm(VSub(agent.position, reg[j].position)) < cad
        /\ reg[j].position # agent.position

\* C18: after execute_formation_transition, an assigned agent that was within
\* formation_tolerance of its target has the avoidance term alone as velocity:
\* with no other agent inside collision_avoidance_distance (before and after
\* the step) its velocity is zero and its position is the one before; with
\* another agent inside that distance (before and after) it has been pushed
\* from its place.
C18_WithinToleranceAvoidanceOnly ==
    last.op = "execute_formation_transition" =>
        \A k \in 1..Len(assignments) :
            assignments[k].id \in Keys(agents) =>
                LET before == Get(last.arg.before, assignments[k].id)
                    after == Get(agents, assignments[k].id)
                    cad == params.collision_avoidance_distance
                IN  Norm(VSub(assignments[k].target, before.position))
                        <= params.formation_tolerance
                    => /\ (~NeighbourInside(last.arg.before, before, cad)
                             /\ ~NeighbourInside(agents, before, cad))
                          => (after.velocity = <<0, 0>> /\ after.position = before.position)
                       /\ (NeighbourInside(last.arg.before, before, cad)
                             /\ NeighbourInside(agents, before, cad))
                          => after.position # before.position

\* C19: an assigned agent that execute_formation_transition leaves with the
\* zero vector as velocity has the heading it had before the step.
C19_ZeroVelocityKeepsHeading ==
    last.op = "execute_formation_transition" =>
        \A k \in 1..Len(assignments) :
            assignments[k].id \in Keys(agents) =>
                LET before == Get(last.arg.before, assignments[k].id)
                    after == Get(agents, assignments[k].id)
                IN  after.velocity = <<0, 0>> => after.heading = before.heading

\* the square of the length of a vector
MagSq(v) == v[1] * v[1] + v[2] * v[2]

\* the ordered pairs of distinct registered agents
AgentPairs == {p \in (1..Len(agents)) \X (1..Len(agents)) : p[1] # p[2]}

Separation(p) == Norm(VSub(agents[p[1]].position, agents[p[2]].position))

Repulsion(p) ==
    RepulsiveTerm(agents[p[1]], agents[p[2]], params.collision_avoidance_distance)

\* C20: the term one neighbour adds to the avoidance force is the zero vector
\* when the two agents are collision_avoidance_distance or more apart; of two
\* neighbours closer than that, the nearer one adds the strictly longer term
\* (on the grid: whenever the two distances differ by half a unit or more, the
\* truncated terms cannot tell smaller differences apart); and the terms two
\* agents add to each other are opposite vectors of the same length.
C20_RepulsionShape ==
    /\ \A p \in AgentPairs :
          /\ Separation(p) >= params.collision_avoidance_distance
                => Repulsion(p) = <<0, 0>>
          /\ Repulsion(<<p[2], p[1]>>) = <<-Repulsion(p)[1], -Repulsion(p)[2]>>
    /\ \A p, q \in AgentPairs :
          (0 < Separation(p) /\ Separation(p) + SCALE \div 2 <= Separation(q)
             /\ Separation(q) < params.collision_avoidance_distance)
            => MagSq(Repulsion(p)) > MagSq(Repulsion(q))

\* after a step, two agents are exactly collision_avoidance_distance apart and
\* add nothing to each other, while a third agent is a unit from one of them
\* and more than four units from the other and is pushed harder by the nearer
C20_Witness ==
    /\ last.op = "execute_formation_transition"
    /\ \E p \in AgentPairs :
          /\ Separation(p) = params.collision_avoidance_distance
          /\ MagSq(VSub(agents[p[1]].position, agents[p[2]].position))
                = params.collision_avoidance_distance * params.collision_avoidance_distance
          /\ Repulsion(p) = <<0, 0>>
    /\ \E p, q \in AgentPairs :
          /\ 0 < Separation(p)
          /\ Separation(p) + SCALE \div 2 <= Separation(q)
          /\ Separation(q) < params.collision_avoidance_distance
          /\ Repulsion(q) # <<0, 0>>
          /\ MagSq(Repulsion(p)) > MagSq(Repulsion(q))

\* the place of an agent id in the order of ids
IdRank(id) == CASE id = "a" -> 1 [] id = "b" -> 2 [] id = "c" -> 3 [] OTHER -> 4

\* C21: for a mission with targets, _assign_agents_to_mission returns
\* min(required_agents, number of agents) distinct registered ids, by
\* non-increasing score and, among equal scores, by id; the list is the same for
\* every insertion order of the same agents.
C21_SelectionByScoreThenId ==
    (last.op \in {"update_mission_progress", "coordinate_mission_execution"}
       /\ last.arg \in DOMAIN missions
       /\ missions[last.arg].target_positions # <<>>
       /\ missions[last.arg].required_agents > 0)
       => LET mission == missions[last.arg]
              selected == AssignAgentsToMission(agents, mission)
              score(id) == AgentScore(Get(agents, id), mission)
          IN  /\ Len(selected) = Min2(mission.required_agents, Len(agents))
              /\ \A k \in 1..Len(selected) : selected[k] \in Keys(agents)
              /\ \A k, l \in 1..Len(selected) : k # l => selected[k] # selected[l]
              /\ \A k \in 1..(Len(selected) - 1) :
                    \/ score(selected[k]) > score(selected[k + 1])
                    \/ /\ score(selected[k]) = score(selected[k + 1])
                       /\ IdRank(selected[k]) < IdRank(selected[k + 1])
              /\ \A reg \in Reorderings(agents) :
                    AssignAgentsToMission(reg, mission) = selected

\* C22: one consensus iteration computes every new value from the values of
\* the previous iteration alone: an agent with neighbours gets (its value + the
\* sum of its neighbours' values) / (number of neighbours + 1), a neighbour
\* that holds no value counting with the agent's own value; an agent without
\* neighbours keeps its value; only registered agents that held a value get one.
C22_JacobiUpdate ==
    [][(consensus.pc = "loop" /\ consensus' # consensus)
          => LET prev == consensus.current_values
                 new == consensus'.new_values
             IN  /\ DOMAIN new = DOMAIN prev \cap Keys(agents)
                 /\ \A id \in DOMAIN new :
                       LET nb == Neighbors(id)
                           seen == [n \in nb |-> IF n \in DOMAIN prev THEN prev[n]
                                                 ELSE prev[id]]
                       IN  new[id] = IF nb = {} THEN prev[id]
                                     ELSE Quot(prev[id] + SumValues(seen, nb),
                                               Cardinality(nb) + 1)]_vars

\* on the chain a - b - c the second iteration is over: b has two neighbours,
\* and a and c no longer hold their initial values
C22_Witness ==
    /\ consensus.pc = "loop"
    /\ consensus.iteration >= 2
    /\ Neighbors("b") = {"a", "c"}
    /\ Neighbors("a") = {"b"}
    /\ {"a", "b", "c"} \subseteq DOMAIN consensus.current_values
    /\ consensus.current_values["a"] # consensus.initial_values["a"]
    /\ consensus.current_values["a"] # consensus.current_values["c"]

\* C23: every call of implement_consensus_algorithm ends by returning: the loop
\* is left in the first iteration whose largest change is below
\* convergence_threshold, or after max_iterations iterations, and the value
\* returned is the mean of the final values of the agents.
C23_ConsensusTerminatesWithMean ==
    last.op = "implement_consensus_algorithm" =>
        /\ consensus.pc # "raised"
        /\ consensus.iteration <= max_iterations
        /\ consensus.pc \in {"exit", "returned"}
              => \/ consensus.iteration = max_iterations
                 \/ \A id \in DOMAIN consensus.new_values :
                       Abs(consensus.new_values[id] - consensus.current_values[id])
                          < convergence_threshold
        /\ consensus.pc = "returned"
              => /\ DOMAIN consensus.new_values # {}
                 /\ consensus.ret
                       = Quot(SumValues(consensus.new_values, DOMAIN consensus.new_values),
                              Cardinality(DOMAIN consensus.new_values))

\* u . v and the z component of u x v, on the grid
Dot(u, v) == FMul(u[1], v[1]) + FMul(u[2], v[2])

Cross(u, v) == FMul(u[1], v[2]) - FMul(u[2], v[1])

\* x is within 5 percent of the positive length len
Near(x, len) == Abs(x - len) * 20 <= len

\* C24: at every heading the wedge starts at center, and follower i, of rank
\* ceil(i / 2), lies rank * spacing behind center along the heading and
\* 0.7 * rank * spacing to its side, odd and even followers on opposite sides;
\* the positions are pairwise distinct.
C24_WedgeGeometry ==
    (last.op = "calculate_formation_positions"
       /\ last.arg.in.formation_type = "wedge"
       /\ last.arg.in.num_agents >= 1)
       => LET in == last.arg.in
              positions == last.arg.positions
              forward == UnitVec(in.heading)
              offset(i) == VSub(positions[i + 1], in.center)
              rank(i) == (i + 1) \div 2
          IN  /\ positions[1] = in.center
              /\ \A i \in 1..(in.num_agents - 1) :
                    /\ Near(-Dot(offset(i), forward), rank(i) * in.spacing)
                    /\ Near(Abs(Cross(forward, offset(i))),
                            FMul(rank(i) * in.spacing, (7 * SCALE) \div 10))
                    /\ (i % 2 = 1) = (Cross(forward, offset(i)) > 0)
              /\ \A k, l \in 1..Len(positions) : k # l => positions[k] # positions[l]

\* C25: optimize_swarm_parameters multiplies formation_tolerance by 1.1 when
\* formation_error > 5, by 0.95 when it is < 1 and leaves it otherwise;
\* multiplies collision_avoidance_distance by 1.2 only when collision_count > 0;
\* and changes no other coordination parameter, no agent, no graph and no
\* mission state.
C25_TuningTouchesTwoParameters ==
    [][last'.op = "optimize_swarm_parameters"
          => /\ params'.formation_tolerance =
                   IF metrics.formation_error > 5 * SCALE
                   THEN FMul(params.formation_tolerance, (11 * SCALE) \div 10)
                   ELSE IF metrics.formation_error < SCALE
                   THEN FMul(params.formation_tolerance, (95 * SCALE) \div 100)
                   ELSE params.formation_tolerance
             /\ params'.collision_avoidance_distance =
                   IF metrics.collision_count > 0
                   THEN FMul(params.collision_avoidance_distance, (12 * SCALE) \div 10)
                   ELSE params.collision_avoidance_distance
             /\ params'.max_communication_range = params.max_communication_range
             /\ params'.update_frequency = params.update_frequency
             /\ params'.consensus_threshold = params.consensus_threshold
             /\ UNCHANGED <<agents, nodes, edges, missions, metrics>>]_vars

\* C26: calculate_formation_positions returns exactly num_agents positions for
\* every formation type, known or not, and every num_agents >= 0; and a plan on
\* a non-empty swarm holds exactly one target for every registered agent.
C26_OnePositionPerAgent ==
    /\ last.op = "calculate_formation_positions"
          => Len(last.arg.positions) = last.arg.in.num_agents
    /\ (last.op = "plan_formation_transition" /\ agents # <<>>)
          => /\ Len(assignments) = Len(agents)
             /\ \A i \in 1..Len(agents) :
                   Cardinality({k \in 1..Len(assignments) :
                                   assignments[k].id = agents[i].id}) = 1

\* the agent id is registered and the caller's map holds a target for it
Assigned(id) ==
    /\ id \in Keys(agents)
    /\ \E k \in 1..Len(assignments) : assignments[k].id = id

TargetOf(id) == assignments[CHOOSE k \in 1..Len(assignments) : assignments[k].id = id].target

DistanceToTarget(reg, id) == Norm(VSub(TargetOf(id), Get(reg, id).position))

\* id has no other agent inside collision_avoidance_distance, and one step of
\* it is no longer than formation_tolerance
Unhindered(id) ==
    /\ ~NeighbourInside(agents, Get(agents, id), params.collision_avoidance_distance)
    /\ FDiv(Get(agents, id).max_speed, params.update_frequency) <= params.formation_tolerance

Arrived(id) == Assigned(id) => DistanceToTarget(agents, id) <= params.formation_tolerance

\* the registry after one more execute_formation_transition(assignments)
AfterNextCall == ExecuteFormationTransitionResult(agents, assignments, params)

\* C27: under repeated execute_formation_transition of one assignment map, an
\* assigned agent that has no other agent inside collision_avoidance_distance
\* (before and after the call) and whose step is at most formation_tolerance
\* is brought strictly closer to its target by the next call whenever it is
\* farther than formation_tolerance, so that, distances being whole numbers of
\* grid units, it is within formation_tolerance after finitely many calls; and
\* an agent within formation_tolerance is left as it is by the next call.
C27_ArrivalWithoutOvershoot ==
    \A id \in {"a", "b", "c"} :
        Assigned(id) =>
            /\ ( /\ Unhindered(id)
                 /\ ~NeighbourInside(AfterNextCall, Get(agents, id),
                                     params.collision_avoidance_distance)
                 /\ ~Arrived(id) )
               => /\ DistanceToTarget(AfterNextCall, id) < DistanceToTarget(agents, id)
                  /\ DistanceToTarget(AfterNextCall, id)
                        >= DistanceToTarget(agents, id)
                             - FDiv(Get(agents, id).max_speed, params.update_frequency) - 1
            /\ Arrived(id) => Get(AfterNextCall, id) = Get(agents, id)

\* agent a, alone, has come from (0, 0) to within formation_tolerance of its
\* target (10, 0) and the last call left it where it was
C27_Witness ==
    /\ last.op = "execute_formation_transition"
    /\ Len(agents) = 1
    /\ TargetOf("a") = Pt(10, 0)
    /\ Get(agents, "a").position[1] >= 8 * SCALE
    /\ Arrived("a")
    /\ last.arg.before = agents

\* the agents that the graph connects to the agents of group, group included
RECURSIVE Reach(_)
Reach(group) ==
    LET wider == group \cup UNION {Neighbors(x) : x \in group}
    IN  IF wider = group THEN group ELSE Reach(wider)

\* the initial values held in the connected component of id
ComponentValues(id) ==
    {consensus.initial_values[x] : x \in Reach({id}) \cap DOMAIN consensus.initial_values}

MinOf(xs) == CHOOSE m \in xs : \A x \in xs : m <= x

\* C28: during and after a consensus run the value of every registered agent
\* lies between the least and the greatest initial value of its connected
\* component, and the value returned lies between the least and the greatest
\* of all initial values.
C28_ValuesWithinInitialBounds ==
    consensus.pc \in {"loop", "exit", "returned"} =>
        /\ \A id \in DOMAIN ConsensusValues \cap Keys(agents) :
              /\ MinOf(ComponentValues(id)) <= ConsensusValues[id]
              /\ ConsensusValues[id] <= MaxOf(ComponentValues(id))
        /\ consensus.pc = "returned" =>
              LET all == {consensus.initial_values[x] : x \in DOMAIN consensus.initial_values}
              IN  MinOf(all) <= consensus.ret /\ consensus.ret <= MaxOf(all)

\* a run on the chain a - b - c has returned after several iterations a value
\* strictly between the least and the greatest initial value
C28_Witness ==
    /\ consensus.pc = "returned"
    /\ consensus.iteration >= 2
    /\ Reach({"a"}) = {"a", "b", "c"}
    /\ Neighbors("a") = {"b"}
    /\ LET all == {consensus.initial_values[x] : x \in DOMAIN consensus.initial_values}
       IN  MinOf(all) < consensus.ret /\ consensus.ret < MaxOf(all)

\* the caller's map holds a target for id
HasTarget(id) == \E k \in 1..Len(assignments) : assignments[k].id = id

\* C29: execute_formation_transition changes nothing but the position, velocity
\* and heading of agents that have a target in the assignment map: an agent
\* without a target is as before, every other field of every agent is as
\* before, and so are the registry's ids and their order, the graph, the
\* missions, the coordination parameters and the metrics.
C29_ExecuteFrame ==
    [][last'.op = "execute_formation_transition"
          => /\ Len(agents') = Len(agents)
             /\ \A i \in 1..Len(agents) :
                   /\ [agents'[i] EXCEPT !.position = agents[i].position,
                                         !.velocity = agents[i].velocity,
                                         !.heading = agents[i].heading] = agents[i]
                   /\ ~HasTarget(agents[i].id) => agents'[i] = agents[i]
             /\ UNCHANGED <<nodes, edges, missions, params, metrics, assignments>>]_vars

\* a call has moved an agent that has a target while another registered agent
\* has none
C29_Witness ==
    /\ last.op = "execute_formation_transition"
    /\ \E i \in 1..Len(agents) :
          /\ HasTarget(agents[i].id)
          /\ agents[i].position # last.arg.before[i].position
          /\ agents[i].heading # last.arg.before[i].heading
    /\ \E j \in 1..Len(agents) : ~HasTarget(agents[j].id)
    /\ DOMAIN missions # {}

\* C30: when the swarm has more agents than the mission requires,
\* coordinate_mission_execution leaves the position, velocity and heading of
\* every agent that _assign_agents_to_mission did not select as they were, so
\* that at most required_agents agents move.
C30_CoordinateMovesSelectedOnly ==
    [][(last'.op = "coordinate_mission_execution"
          /\ last'.arg \in DOMAIN missions
          /\ Len(agents) > missions[last'.arg].required_agents)
          => LET mission == missions[last'.arg]
                 selected == AssignAgentsToMission(agents, mission)
                 chosen == {selected[k] : k \in 1..Len(selected)}
             IN  /\ \A i \in 1..Len(agents) :
                       agents[i].id \notin chosen
                          => /\ agents'[i].position = agents[i].position
                             /\ agents'[i].velocity = agents[i].velocity
                             /\ agents'[i].heading = agents[i].heading
                 /\ Cardinality({i \in 1..Len(agents) :
                                    agents'[i].position # agents[i].position})
                       <= mission.required_agents]_vars

=============================================================================
